---- MODULE Spec2Model ----
(***************************************************************************)
(* gatsby-source: the paginated fetch engine, the ingestion run and the    *)
(* relations of the content mesh.                                          *)
(*                                                                         *)
(* PaginatedRequest (directus-service/paginated-request) is an async       *)
(* generator that fetches one page per exec(); BasicRequestQueue           *)
(* (directus-service/request-queue) dispatches many of them under a        *)
(* concurrency bound and an optional throttle.                             *)
(*                                                                         *)
(* The JavaScript event loop is modelled as it runs the code: a handler    *)
(* runs to its next await without interruption; promise reactions are      *)
(* jobs in a FIFO (jobs); network responses and timers are macrotasks,     *)
(* taken only when no job is pending.                                      *)
(*                                                                         *)
(* Spec: requests with the hooks of the tests' MockPaginatedRequest, under *)
(* the queue or driven by their caller's exec() calls.  SpecDirectus: a    *)
(* PaginatedDirectusApiRequest against a server whose answers may be       *)
(* malformed.  SpecOffsets: a PaginatedDirectusApiRequest with a limit and  *)
(* a chunk size against a server that pages by offset and limit.           *)
(* SpecReset: a request reused through reset().  SpecIngest:               *)
(* one run of sourceNodes over fetches that may each fail.  SpecMesh: one  *)
(* relation (simple, junction or file) resolving the nodes of its tables.  *)
(***************************************************************************)
EXTENDS Integers, Sequences, FiniteSets, TLC

\* ------------------------------------------------------------- bounds
NumReqs == 2
MaxPages == 2
MaxResets == 2      \* reset() calls followed on one request
MaxStale == 1       \* replaced generators of one request that still await a page
NumCollections == 2 \* content collections the server may list
MaxKey == 1         \* primary keys of a table are among 0..MaxKey

Reqs == 1..NumReqs

\* throttle / timeout: 0 is "off"; every positive delay behaves alike since
\* timers are untimed events here.
DelayChoices == {0, 1}

\* PaginatedDirectusApiRequest: limit (-1: none) and chunkSize (records asked
\* for per page; the server's pages hold two records).
MaxLimit == 3       \* largest limit of a PaginatedDirectusApiRequest
MaxChunk == 2       \* largest chunkSize
LimitChoices == {-1}
ChunkSizeChoices == {2}

VARIABLES
    cfg,            \* configuration, fixed at construction
    \* --- BasicRequestQueue fields
    queue,          \* _queue: index 1 is the front (unshift), the last is popped
    active,         \* _active: the exec() promises, [req, n]
    failed,         \* _failed
    completed,      \* _completed
    currentFlush,   \* _currentFlush is set
    flushWait,      \* where _startFlush is suspended: none | race | resumed | throttle
    jobs,           \* promise reaction jobs (microtasks), FIFO
    \* --- PaginatedRequest fields, per request
    genState,       \* _responseGenerator: suspendedStart | awaiting | suspendedYield | completed
    genQ,           \* the generator's queue of pending next() requests (exec promise numbers)
    pageInfo,       \* the generator's local pageInfo
    results,        \* _results
    awaiting,       \* page whose request the generator awaits (0: none)
    orphans,        \* page requests that lost against their timeout and are still in the network
    state,          \* _state
    receivedError,  \* _receivedError
    fin,            \* the finished() promise taken on the request: none | pending | fulfilled | rejected
    finValue,       \* what that promise was fulfilled with
    finError,       \* what that promise was rejected with
    finTakenIn,     \* the _state in which finished() was called
    stale,          \* generators replaced by reset() while they awaited a page: [page, q]
    resets,         \* reset() calls made on the request
    \* --- what callers and the network observe
    enqueued,       \* requests passed to enqueue()
    execCalls,      \* exec() calls made on the request's current generator
    execLog,        \* outcomes of these exec() promises, in call order
    reqLog,         \* pages requested by the current generator's _sendNextRequest, in order
    sendLog,        \* the pageInfo arguments of _sendNextRequest, in order
    respLog,        \* what the responses delivered to the current generator carried: [error, missing]
    stopped,        \* beforeNextPage returned false
    dispatched,     \* times the queue dispatched the request
    dispatchLog,    \* over all dispatches: largest _active length / smallest _queue length seen just before;
                    \* wave: none | out (requests dispatched, none settled since) | owed (one settled,
                    \* no throttle delay ended since) | paid (a throttle delay ended since);
                    \* last: the request dispatched last (0: none yet)
    flushWaiters,   \* a caller awaits the promise of flush()
    flushSeen,      \* what that caller found when flush() settled
    \* --- one ingestion run (sourceNodes)
    ingest,         \* the run: its fetches, its stage, the mesh it built, its promise
    \* --- one relation of a content mesh
    mesh,           \* the relation and the tables it connects
    resolved        \* the last _resolveNodeRelation call: its arguments and its result

fetchVars == <<cfg, queue, active, failed, completed, currentFlush, flushWait, jobs,
          genState, genQ, pageInfo, results, awaiting, orphans, state, receivedError,
          fin, finValue, finError, finTakenIn, stale, resets, enqueued, execCalls,
          execLog, reqLog, sendLog, respLog, stopped, dispatched, dispatchLog, flushWaiters,
          flushSeen>>

vars == <<fetchVars, ingest, mesh, resolved>>

\* The mutable state as one record, so that a handler is a function on it.
Here ==
    [queue |-> queue, active |-> active, failed |-> failed, completed |-> completed,
     currentFlush |-> currentFlush, flushWait |-> flushWait, jobs |-> jobs,
     genState |-> genState, genQ |-> genQ, pageInfo |-> pageInfo, results |-> results,
     awaiting |-> awaiting, orphans |-> orphans, state |-> state,
     receivedError |-> receivedError, fin |-> fin, finValue |-> finValue,
     finError |-> finError, finTakenIn |-> finTakenIn, stale |-> stale,
     resets |-> resets, sendLog |-> sendLog, respLog |-> respLog,
     enqueued |-> enqueued, execCalls |-> execCalls, execLog |-> execLog,
     reqLog |-> reqLog, stopped |-> stopped, dispatched |-> dispatched,
     dispatchLog |-> dispatchLog, flushWaiters |-> flushWaiters, flushSeen |-> flushSeen]

Become(s) ==
    /\ queue' = s.queue /\ active' = s.active /\ failed' = s.failed
    /\ completed' = s.completed /\ currentFlush' = s.currentFlush
    /\ flushWait' = s.flushWait /\ jobs' = s.jobs
    /\ genState' = s.genState /\ genQ' = s.genQ /\ pageInfo' = s.pageInfo
    /\ results' = s.results /\ awaiting' = s.awaiting /\ orphans' = s.orphans
    /\ state' = s.state /\ receivedError' = s.receivedError
    /\ fin' = s.fin /\ finValue' = s.finValue /\ finError' = s.finError
    /\ finTakenIn' = s.finTakenIn /\ stale' = s.stale /\ resets' = s.resets
    /\ sendLog' = s.sendLog /\ respLog' = s.respLog
    /\ enqueued' = s.enqueued /\ execCalls' = s.execCalls /\ execLog' = s.execLog
    /\ reqLog' = s.reqLog /\ stopped' = s.stopped /\ dispatched' = s.dispatched
    /\ dispatchLog' = s.dispatchLog /\ flushWaiters' = s.flushWaiters
    /\ flushSeen' = s.flushSeen
    /\ cfg' = cfg
    /\ UNCHANGED <<ingest, mesh, resolved>>

Max(a, b) == IF a >= b THEN a ELSE b
Min(a, b) == IF a <= b THEN a ELSE b

\* ------------------------------------------------- the paged data source
\* The server's data for a request of k pages, as the tests' mockResponses:
\* page p carries its own records and the pageInfo that follows it.
PageData(p) == <<2 * p - 1, 2 * p>>

Response(r, p) ==
    [data |-> PageData(p),
     pageInfo |-> [currentOffset |-> 2 * p,
                   resultCount |-> 2 * cfg.pages[r],
                   currentPage |-> p,
                   totalPageCount |-> cfg.pages[r],
                   hasNextPage |-> p < cfg.pages[r]]]

RECURSIVE ConcatPages(_)
\* pages 1..n merged in request order
ConcatPages(n) == IF n = 0 THEN <<>> ELSE ConcatPages(n - 1) \o PageData(n)

\* ------------------------------------------------------ PaginatedRequest
InitResults == <<>>

\* a first pageInfo that is already on page 1
InitPageInfoOnPageOne ==
    [currentOffset |-> 0, resultCount |-> 0, currentPage |-> 1,
     totalPageCount |-> 0, hasNextPage |-> TRUE]

InitPageInfo ==
    [currentOffset |-> 0, resultCount |-> 0, currentPage |-> 0,
     totalPageCount |-> 0, hasNextPage |-> TRUE]

ResolveResults(response) == response.data

\* a merge that keeps only the newest page
MergeResultsReplace(currentResults, newResults) == newResults

MergeResults(currentResults, newResults) == currentResults \o newResults

ResolveNextPageInfo(lastPageInfo, response) == response.pageInfo

\* What a beforeNextPage predicate can return, as JavaScript values: the two
\* booleans and, the type annotation not being enforced at run time, anything else.
PredicateReturns == {"true", "false", "undefined", "null", "0", "''", "'false'", "{}", "-1"}

\* JavaScript's ToBoolean on these values
Truthy(v) == v \in {"true", "'false'", "{}", "-1"}

\* config.beforeNextPage: the caller's predicate; () => true unless configured.
\* cfg.stopAt[r] = i > 0 configures one that returns false before page i; before
\* every other page it returns cfg.ret[r].
BeforeNextPage(r, pi) == IF pi.currentPage + 1 = cfg.stopAt[r] THEN "false" ELSE cfg.ret[r]

\* a loop condition that coerces the returned value to a boolean
ContinuePagingIfTruthy(v) == Truthy(v)

\* The loop condition on the predicate: ... !== false
ContinuePaging(v) == v # "false"

\* _wrapTimeout races the page request against a timer only for a timeout > 0.
WrapTimeoutArmed(timeout) == timeout > 0

IsTerminal(st) == st \in {"complete::success", "complete::error"}

\* An exec() promise settles with outcome o: more | done | reject | timeout.
\* The queue's _activateRequest awaits it, so its reaction is a job.
SettleExec(s, r, o) ==
    LET n == Head(s.genQ[r]) IN
    [s EXCEPT !.genQ[r] = Tail(@),
              !.execLog[r] = Append(@, o),
              !.jobs = IF cfg.driver = "queue"
                       THEN Append(@, [t |-> "settle", req |-> r, n |-> n, res |-> o])
                       ELSE @]

RECURSIVE DrainCompleted(_, _)
\* A completed generator answers every queued next() with done = true.
DrainCompleted(s, r) ==
    IF s.genQ[r] = <<>> THEN s ELSE DrainCompleted(SettleExec(s, r, "done"), r)

\* a completion that sets the state and tells no listener
HandleCompleteTellsNoListener(s, r) == [s EXCEPT !.state[r] = "complete::success"]

HandleComplete(s, r) ==
    [s EXCEPT !.state[r] = "complete::success",
              !.fin[r] = IF @ = "pending" THEN "fulfilled" ELSE @,
              !.finValue[r] = IF s.fin[r] = "pending" THEN s.results[r] ELSE @]

\* an error path that notifies the complete listeners instead of the error listeners
HandleErrorNotifiesComplete(s, r, e) ==
    [s EXCEPT !.state[r] = "complete::error",
              !.receivedError[r] = e,
              !.fin[r] = IF @ = "pending" THEN "fulfilled" ELSE @,
              !.finValue[r] = IF s.fin[r] = "pending" THEN s.results[r] ELSE @]

HandleError(s, r, e) ==
    [s EXCEPT !.state[r] = "complete::error",
              !.receivedError[r] = e,
              !.fin[r] = IF @ = "pending" THEN "rejected" ELSE @,
              !.finError[r] = IF s.fin[r] = "pending" THEN e ELSE @]

\* a finished() that adds its listener pair whatever the state
FinishedAlwaysListens(s, r) ==
    [s EXCEPT !.fin[r] = "pending", !.finTakenIn[r] = s.state[r]]

\* finished(): settled at once on a terminal request, else a listener pair is added
Finished(s, r) ==
    [s EXCEPT !.fin[r] = CASE s.state[r] = "complete::success" -> "fulfilled"
                           [] s.state[r] = "complete::error" -> "rejected"
                           [] OTHER -> "pending",
              !.finValue[r] = IF s.state[r] = "complete::success" THEN s.results[r] ELSE @,
              !.finError[r] = IF s.state[r] = "complete::error" THEN s.receivedError[r] ELSE @,
              !.finTakenIn[r] = s.state[r]]

\* a loop condition that looks at hasNextPage only
GenResumeSkipsPredicate(s, r) ==
    LET pi == s.pageInfo[r] IN
    IF pi.hasNextPage
    THEN [s EXCEPT !.genState[r] = "awaiting",
                   !.awaiting[r] = pi.currentPage + 1,
                   !.reqLog[r] = Append(@, pi.currentPage + 1),
                   !.sendLog[r] = Append(@, pi)]
    ELSE DrainCompleted(HandleComplete([s EXCEPT !.genState[r] = "completed"], r), r)

\* The generator body from its start or from a yield to its next await or its end.
GenResume(s, r) ==
    LET pi == s.pageInfo[r] IN
    IF pi.hasNextPage /\ ContinuePaging(BeforeNextPage(r, pi))
    THEN [s EXCEPT !.genState[r] = "awaiting",
                   !.awaiting[r] = pi.currentPage + 1,
                   !.reqLog[r] = Append(@, pi.currentPage + 1),
                   !.sendLog[r] = Append(@, pi)]
    ELSE LET s1 == [s EXCEPT !.stopped[r] = pi.hasNextPage,
                             !.genState[r] = "completed"]
         IN DrainCompleted(HandleComplete(s1, r), r)

\* an exec() that runs the generator body again while it awaits a page
ExecOverlapping(s, r) ==
    LET n == s.execCalls[r] + 1
        s1 == [s EXCEPT !.execCalls[r] = n,
                        !.genQ[r] = Append(@, n),
                        !.state[r] = IF @ = "queued" THEN "started" ELSE @]
    IN IF s.genState[r] = "completed" THEN DrainCompleted(s1, r) ELSE GenResume(s1, r)

\* an exec() that starts the generator body over once it has completed
ExecStartsOver(s, r) ==
    LET n == s.execCalls[r] + 1
        s1 == [s EXCEPT !.execCalls[r] = n,
                        !.genQ[r] = Append(@, n),
                        !.state[r] = IF @ = "queued" THEN "started" ELSE @]
    IN CASE s.genState[r] = "completed" -> GenResume([s1 EXCEPT !.pageInfo[r] = InitPageInfo], r)
         [] s.genState[r] = "awaiting" -> s1
         [] OTHER -> GenResume(s1, r)

\* exec(): one next() on the generator.  A generator that is running queues it.
Exec(s, r) ==
    LET n == s.execCalls[r] + 1
        s1 == [s EXCEPT !.execCalls[r] = n,
                        !.genQ[r] = Append(@, n),
                        !.state[r] = IF @ = "queued" THEN "started" ELSE @]
    IN CASE s.genState[r] = "completed" -> DrainCompleted(s1, r)
         [] s.genState[r] = "awaiting" -> s1
         [] OTHER -> GenResume(s1, r)

\* a generator that completes with its last page instead of yielding it
OnPageResponseCompletesWithLastPage(s, r) ==
    LET response == Response(r, s.awaiting[r])
        result == ResolveResults(response)
        pi == ResolveNextPageInfo(s.pageInfo[r], response)
        s1 == [s EXCEPT !.awaiting[r] = 0,
                        !.results[r] = MergeResults(@, result),
                        !.pageInfo[r] = pi,
                        !.genState[r] = IF pi.hasNextPage THEN "suspendedYield" ELSE "completed"]
    IN IF pi.hasNextPage
       THEN LET s2 == SettleExec(s1, r, "more")
            IN IF s2.genQ[r] # <<>> THEN GenResume(s2, r) ELSE s2
       ELSE DrainCompleted(HandleComplete(s1, r), r)

\* The awaited page request is fulfilled: merge, next pageInfo, yield.
OnPageResponse(s, r) ==
    LET response == Response(r, s.awaiting[r])
        result == ResolveResults(response)
        s1 == [s EXCEPT !.awaiting[r] = 0,
                        !.results[r] = MergeResults(@, result),
                        !.pageInfo[r] = ResolveNextPageInfo(@, response),
                        !.genState[r] = "suspendedYield"]
        s2 == SettleExec(s1, r, "more")
    IN IF s2.genQ[r] # <<>> THEN GenResume(s2, r) ELSE s2

\* an error path that starts over with an empty container
OnPageErrorDropsResults(s, r, e) ==
    LET s1 == HandleError([s EXCEPT !.awaiting[r] = 0,
                                    !.results[r] = InitResults,
                                    !.genState[r] = "completed"], r, e)
    IN DrainCompleted(SettleExec(s1, r, e), r)

\* The awaited page request (or its race against the timer) is rejected with e.
OnPageError(s, r, e) ==
    LET s1 == HandleError([s EXCEPT !.awaiting[r] = 0,
                                    !.genState[r] = "completed"], r, e)
    IN DrainCompleted(SettleExec(s1, r, e), r)

\* reset(): a new generator, the initial results, state and error.  The replaced
\* generator is not stopped: if it awaits a page request it resumes when that
\* request settles, on the same instance.  (The logs start over with the new
\* generator.)
Reset(s, r) ==
    [s EXCEPT !.stale[r] = IF s.awaiting[r] # 0
                           THEN Append(@, [page |-> s.awaiting[r], q |-> Len(s.genQ[r])])
                           ELSE @,
              !.genState[r] = "suspendedStart",
              !.genQ[r] = <<>>,
              !.pageInfo[r] = InitPageInfo,
              !.awaiting[r] = 0,
              !.results[r] = InitResults,
              !.state[r] = "queued",
              !.receivedError[r] = "none",
              !.resets[r] = @ + 1,
              !.execCalls[r] = 0, !.execLog[r] = <<>>, !.reqLog[r] = <<>>,
              !.sendLog[r] = <<>>, !.respLog[r] = <<>>, !.stopped[r] = FALSE]

RemoveAt(sq, i) == SubSeq(sq, 1, i - 1) \o SubSeq(sq, i + 1, Len(sq))

\* a race that hands the response of the loser to the generator's merge
OnLateResponseMerges(s, r) ==
    [s EXCEPT !.orphans[r] = @ - 1,
              !.results[r] = MergeResults(@, ResolveResults(Response(r, Len(s.reqLog[r]))))]

\* The page request that lost the Promise.race of _wrapTimeout settles: the
\* race is settled already and nothing else awaits the request.
OnLateResponse(s, r) == [s EXCEPT !.orphans[r] = @ - 1]

\* The page request awaited by the replaced generator stale[r][i] is fulfilled:
\* it merges into _results, yields, and with a next() still queued goes on to
\* its next page or to _handleComplete.
OnStalePageResponse(s, r, i) ==
    LET g == s.stale[r][i]
        response == Response(r, g.page)
        pi == ResolveNextPageInfo(InitPageInfo, response)
        s1 == [s EXCEPT !.results[r] = MergeResults(@, ResolveResults(response))]
    IN IF g.q > 1
       THEN IF pi.hasNextPage /\ ContinuePaging(BeforeNextPage(r, pi))
            THEN [s1 EXCEPT !.stale[r][i] = [page |-> pi.currentPage + 1, q |-> g.q - 1]]
            ELSE HandleComplete([s1 EXCEPT !.stale[r] = RemoveAt(@, i)], r)
       ELSE [s1 EXCEPT !.stale[r] = RemoveAt(@, i)]

\* The page request awaited by the replaced generator stale[r][i] is rejected
\* with e: its catch calls _handleError on the instance.
OnStalePageError(s, r, i, e) ==
    HandleError([s EXCEPT !.stale[r] = RemoveAt(@, i)], r, e)

\* ------------------------------------------- PaginatedDirectusApiRequest
\* A JavaScript value with its typeof.
Num(n) == [type |-> "number", val |-> n]
Undefined == [type |-> "undefined", val |-> 0]
TypeOf(v) == v.type

MetaFields == {"result_count", "page", "page_count"}

\* The server's answer to the request for page p of request r: its records and
\* its meta block, with an error payload if withError, and without the meta
\* fields in missing.
DirectusResponse(r, p, withError, missing) ==
    [data |-> PageData(p),
     error |-> withError,
     meta |-> [result_count |-> IF "result_count" \in missing THEN Undefined
                                ELSE Num(Len(PageData(p))),
               page |-> IF "page" \in missing THEN Undefined ELSE Num(p),
               page_count |-> IF "page_count" \in missing THEN Undefined
                              ELSE Num(cfg.pages[r])]]

\* A hook either returns a value or throws.
Returned(v) == [threw |-> FALSE, value |-> v]
Threw(e) == [threw |-> TRUE, value |-> e]

\* a _resolveResults that does not look at the error payload
DirectusResolveResultsIgnoresError(response) == Returned(response.data)

\* _resolveResults: throws on an error payload, else the records
DirectusResolveResults(response) ==
    IF response.error THEN Threw("payload") ELSE Returned(response.data)

\* this.results.length in _resolveNextPageInfo: results is the method results(),
\* and the length of a function is the number of its parameters.
ResultsMethodLength == 0

Ceil(a, b) == (a + b - 1) \div b

DirectusResolveHasNextPage(nextOffset, meta, limit, chunkSize) ==
    IF (limit >= 0 /\ nextOffset >= limit) \/ meta.page.val >= meta.page_count.val
    THEN FALSE
    ELSE chunkSize > 0

DirectusResolveTotalPageCount(meta, limit, chunkSize) ==
    IF limit >= 0 /\ chunkSize > 0 THEN Ceil(limit, chunkSize) ELSE meta.page_count.val

\* a _resolveNextPageInfo that takes missing metadata for the end of the data
DirectusResolveNextPageInfoEndsOnMissing(currentPageInfo, response, limit, chunkSize) ==
    Returned([currentPageInfo EXCEPT !.hasNextPage = FALSE])

\* _resolveNextPageInfo: throws unless result_count, page and page_count are numbers
DirectusResolveNextPageInfo(currentPageInfo, response, limit, chunkSize) ==
    LET meta == response.meta IN
    IF \/ TypeOf(meta.result_count) # "number"
       \/ TypeOf(meta.page) # "number"
       \/ TypeOf(meta.page_count) # "number"
    THEN Threw("meta")
    ELSE LET nextOffset == currentPageInfo.currentOffset +
                              (IF limit >= 0
                               THEN Min(meta.result_count.val, limit - ResultsMethodLength)
                               ELSE meta.result_count.val)
         IN Returned([currentOffset |-> nextOffset,
                      hasNextPage |-> DirectusResolveHasNextPage(nextOffset, meta, limit, chunkSize),
                      resultCount |-> meta.result_count.val,
                      currentPage |-> meta.page.val,
                      totalPageCount |-> DirectusResolveTotalPageCount(meta, limit, chunkSize)])

\* _sendNextRequest: the offset and limit parameters of the page request.  The
\* offset parameter is left out when it is 0, which asks for offset 0.
DirectusSendNextRequest(pi, limit, chunkSize) ==
    [offset |-> IF pi.currentOffset > 0 THEN pi.currentOffset ELSE 0,
     limit |-> IF limit >= 0 /\ chunkSize > 0
               THEN Min(limit, chunkSize)
               ELSE IF chunkSize > 0 THEN chunkSize ELSE limit]

\* The server's answer to the request for page p of request r made with params,
\* when it returns count records: the records after the offset, and a meta
\* block with their number, the page and the number of pages the server has.
ServerAnswer(r, p, params, count) ==
    [data |-> [i \in 1..count |-> params.offset + i],
     error |-> FALSE,
     meta |-> [result_count |-> Num(count),
               page |-> Num(p),
               page_count |-> Num(cfg.pages[r])]]

\* The awaited page request is fulfilled with response: the body of the try block,
\* any throw of a hook going to the catch.
OnDirectusPageResponse(s, r, response) ==
    LET s0 == [s EXCEPT !.respLog[r] =
                   Append(@, [error |-> response.error,
                              missing |-> {f \in MetaFields : TypeOf(response.meta[f]) # "number"}])]
        result == DirectusResolveResults(response)
        merged == [s0 EXCEPT !.results[r] = MergeResults(@, result.value)]
        next == DirectusResolveNextPageInfo(s.pageInfo[r], response, cfg.limit, cfg.chunkSize)
    IN CASE result.threw -> OnPageError(s0, r, result.value)
         [] next.threw -> OnPageError(merged, r, next.value)
         [] OTHER ->
              LET s1 == [merged EXCEPT !.awaiting[r] = 0,
                                       !.pageInfo[r] = next.value,
                                       !.genState[r] = "suspendedYield"]
                  s2 == SettleExec(s1, r, "more")
              IN IF s2.genQ[r] # <<>> THEN GenResume(s2, r) ELSE s2

\* ----------------------------------------------------- BasicRequestQueue
\* a bound checked with <= instead of <
HasFreeSlotOffByOne(n) == cfg.maxConcurrentRequests <= 0 \/ n <= cfg.maxConcurrentRequests

\* _maxConcurrentRequests is POSITIVE_INFINITY unless the configured number is > 0.
HasFreeSlot(n) == cfg.maxConcurrentRequests <= 0 \/ n < cfg.maxConcurrentRequests

\* The condition of the inner loop of _startFlush.
CanActivate(s) == HasFreeSlot(Len(s.active)) /\ Len(s.queue) > 0

\* _activateRequest up to its await: exec() the request, push the promise.
ActivateRequest(s, r) ==
    LET s1 == Exec(s, r)
        activeRequest == [req |-> r, n |-> s1.execCalls[r]]
    IN [s1 EXCEPT !.active = Append(@, activeRequest),
                  !.dispatched[r] = @ + 1]

RECURSIVE FillActive(_)
\* the inner loop of _startFlush: pop from the back while a slot is free
FillActive(s) ==
    IF CanActivate(s)
    THEN LET r == s.queue[Len(s.queue)]
             s1 == [s EXCEPT !.queue = SubSeq(@, 1, Len(@) - 1),
                             !.dispatchLog =
                                 [maxActive |-> Max(@.maxActive, Len(s.active)),
                                  minQueue |-> Min(@.minQueue, Len(s.queue)),
                                  wave |-> "out",
                                  last |-> r]]
         IN FillActive(ActivateRequest(s1, r))
    ELSE s

\* _startFlush from the head of its outer loop to its next await, or to its end
\* (the promise of _startFlush is fulfilled and its finally() reaction is queued).
StartFlush(s) ==
    IF Len(s.queue) > 0
    THEN [FillActive(s) EXCEPT !.flushWait = "race"]
    ELSE [s EXCEPT !.flushWait = "none",
                   !.jobs = Append(@, [t |-> "flushFinally", req |-> 0, n |-> 0, res |-> "ok"])]

\* flush() when no flush is current: _currentFlush = _startFlush().finally(...)
Flush(s) == StartFlush([s EXCEPT !.currentFlush = TRUE])

ScheduleFlush(s) == IF ~s.currentFlush THEN Flush(s) ELSE s

\* a request put at the end the queue is popped from
EnqueueAtBack(s, r) == ScheduleFlush([s EXCEPT !.queue = @ \o <<r>>])

Enqueue(s, r) == ScheduleFlush([s EXCEPT !.queue = <<r>> \o @])

HandleRequestComplete(s, r) == [s EXCEPT !.completed = Append(@, r)]

\* a failure that also gives up the requests still waiting
HandleRequestErrorAbortsWaiting(s, r) == [s EXCEPT !.failed = Append(@, r), !.queue = <<>>]

HandleRequestError(s, r) == [s EXCEPT !.failed = Append(@, r)]

\* a settled promise that stays in _active
RemoveActiveKeeps(s, p) == s

RemoveActive(s, p) == [s EXCEPT !.active = SelectSeq(@, LAMBDA a : a # p)]

\* results() of the queue: the results() of each request in _completed
QueueResults(s) == [i \in 1..Len(s.completed) |-> s.results[s.completed[i]]]

\* Promise.race(_active) sees promise p settle with res while _startFlush awaits it.
RaceSettled(s, res) ==
    IF s.flushWait # "race" THEN s
    ELSE IF res \in {"more", "done"}
    THEN [s EXCEPT !.flushWait = "resumed",
                   !.jobs = Append(@, [t |-> "flushCont", req |-> 0, n |-> 0, res |-> "ok"])]
    ELSE [s EXCEPT !.flushWait = "none",
                   !.jobs = Append(@, [t |-> "flushFinally", req |-> 0, n |-> 0, res |-> "error"])]

\* _activateRequest after its await, then the reaction of Promise.race.
ActivateRequestSettled(s, j) ==
    LET p == [req |-> j.req, n |-> j.n]
        s0 == [s EXCEPT !.dispatchLog.wave = IF @ = "out" THEN "owed" ELSE @]
        s1 == CASE j.res = "more" -> Enqueue(s0, j.req)
                [] j.res = "done" -> HandleRequestComplete(s0, j.req)
                [] OTHER -> HandleRequestError(s0, j.req)
    IN RaceSettled(RemoveActive(s1, p), j.res)

\* _startFlush after Promise.race: the throttle, then the next round.
StartFlushResumed(s) ==
    IF cfg.throttle > 0 THEN [s EXCEPT !.flushWait = "throttle"] ELSE StartFlush(s)

\* Page requests of dispatched requests that are still outstanding.
OutstandingActive(s) == Cardinality({i \in 1..Len(s.active) : s.awaiting[s.active[i].req] # 0})

\* The finally() reaction of flush(): _currentFlush is cleared and the callers of
\* flush() resume.
FlushSettled(s, j) ==
    [s EXCEPT !.currentFlush = FALSE,
              !.flushWaiters = FALSE,
              !.flushSeen = IF s.flushWaiters
                            THEN [st |-> IF j.res = "ok" THEN "resolved" ELSE "rejected",
                                  waiting |-> Len(s.queue),
                                  outstanding |-> OutstandingActive(s)]
                            ELSE @]

\* ------------------------------------------------ sourceNodes (gatsby-node)
\* One ingestion run.  A fetch is one call of a DirectusService method: the
\* method enqueues a PaginatedDirectusApiRequest, awaits its finished()
\* promise (settled once by the fetch engine above, fulfilled or rejected) and
\* turns the outcome into the outcome of its own promise.  `await this._ready`
\* never throws (_login catches), so a called method is a pending fetch.
Collections == 1..NumCollections

Fetch(kind, c) == [kind |-> kind, of |-> c]

\* batchGetCollections(), batchGetRelations(), getFilesCollection()
SchemaFetches ==
    {Fetch("collections", 0), Fetch("relations", 0), Fetch("fileCollection", 0)}

\* getCollectionRecords(c) for the collections given, and getAllFiles()
RecordFetches(cs) == {Fetch("records", c) : c \in cs}
ContentFetches(cs) == RecordFetches(cs) \cup {Fetch("files", 0)}

AllFetches == SchemaFetches \cup ContentFetches(Collections)

\* What the server lists: the collections that pass _shouldIncludeCollection,
\* and whether the list holds the collection named _fileCollectionName.
Servers == [collections : SUBSET Collections, hasFileCollection : BOOLEAN]

NoMesh == [built |-> FALSE, from |-> {}]

NoIngest ==
    [server |-> [collections |-> {}, hasFileCollection |-> FALSE],
     stage |-> "idle",
     fetch |-> [f \in AllFetches |-> "none"],
     collections |-> {},
     mesh |-> NoMesh,
     processed |-> FALSE,
     caught |-> FALSE,
     promise |-> "none"]

\* Promise.all over promises in the given states
PromiseAllIsRace(states) ==
    IF "fulfilled" \in states THEN "fulfilled"
    ELSE IF "rejected" \in states THEN "rejected"
    ELSE "pending"

PromiseAll(states) ==
    IF "rejected" \in states THEN "rejected"
    ELSE IF states \subseteq {"fulfilled"} THEN "fulfilled"
    ELSE "pending"

\* The outcome of a DirectusService method once finished() settled: every
\* catch block logs and rethrows; getFilesCollection also throws when the list
\* holds no collection of the configured name.
MethodOutcome(g, f, finished) ==
    IF finished = "rejected" THEN "rejected"
    ELSE IF f.kind = "fileCollection" /\ ~g.server.hasFileCollection THEN "rejected"
    ELSE "fulfilled"

BatchGetCollectionRecords(g) ==
    PromiseAll({g.fetch[f] : f \in RecordFetches(g.collections)})

\* new ContentMesh({collections, records, relations}) from what was fetched
BuildMesh(g) ==
    [g EXCEPT !.mesh = [built |-> TRUE,
                        from |-> SchemaFetches \cup ContentFetches(g.collections)],
              !.stage = "processing"]

\* the catch block of sourceNodes: log.error, and the function returns
SourceNodesCatch(g) ==
    [g EXCEPT !.stage = "done", !.caught = TRUE, !.promise = "fulfilled"]

\* sourceNodes up to its first await
SourceNodes(g) ==
    [g EXCEPT !.stage = "schema",
              !.promise = "pending",
              !.fetch = [f \in AllFetches |->
                            IF f \in SchemaFetches THEN "pending" ELSE "none"]]

\* sourceNodes resumes when the Promise.all it awaits has settled
SourceNodesResumed(g) ==
    IF g.stage = "schema"
    THEN LET all == PromiseAll({g.fetch[f] : f \in SchemaFetches})
         IN  IF all = "rejected" THEN SourceNodesCatch(g)
             ELSE IF all = "fulfilled"
             THEN [g EXCEPT !.stage = "content",
                            !.fetch = [f \in AllFetches |->
                                          IF f \in ContentFetches(g.collections)
                                          THEN "pending" ELSE g.fetch[f]]]
             ELSE g
    ELSE IF g.stage = "content"
    THEN LET all == PromiseAll({BatchGetCollectionRecords(g),
                                g.fetch[Fetch("files", 0)]})
         IN  IF all = "rejected" THEN SourceNodesCatch(g)
             ELSE IF all = "fulfilled" THEN BuildMesh(g)
             ELSE g
    ELSE g

\* the finished() promise of a fetch settles
SettleFetch(g, f, finished) ==
    LET out == MethodOutcome(g, f, finished)
    IN  SourceNodesResumed(
            [g EXCEPT !.fetch[f] = out,
                      !.collections = IF f.kind = "collections" /\ out = "fulfilled"
                                      THEN g.server.collections ELSE @])

\* the promise of processor.processMesh(contentMesh) settles
SettleProcessMesh(g, outcome) ==
    IF outcome = "rejected" THEN SourceNodesCatch(g)
    ELSE [g EXCEPT !.stage = "done", !.processed = TRUE, !.promise = "fulfilled"]

\* ------------------------------------------------------- content mesh
\* JavaScript values of record fields: numbers, null, undefined (the field is
\* absent).  typeof null is "object".
Null == [type |-> "object", val |-> 0]

\* ToBoolean, as `if (existing)` applies it
ToBoolean(v) == v \notin {Null, Undefined, Num(0)}

\* v != null
NotNullish(v) == v \notin {Null, Undefined}

\* ContentNode
ContentNode(collection, record) ==
    [collection |-> collection, primaryKeyFieldName |-> "id", record |-> record]

PrimaryKey(node) == node.record[node.primaryKeyFieldName]

\* node.contents[field]
Contents(node, field) ==
    IF field \in DOMAIN node.record THEN node.record[field] ELSE Undefined

\* ContentCollection: the nodes in the order they were fetched, at most one
\* per primary key
GetNodes(table) == table

\* what _resolveNodeRelation returns: void, one node or a list of nodes
Void == [type |-> "void", nodes |-> <<>>]
Single(node) == [type |-> "node", nodes |-> <<node>>]
List(nodes) == [type |-> "list", nodes |-> nodes]

GetByPrimaryKey(table, pk) ==
    IF \E i \in 1..Len(table) : PrimaryKey(table[i]) = pk
    THEN Single(table[CHOOSE i \in 1..Len(table) : PrimaryKey(table[i]) = pk])
    ELSE Void

\* a field name of the relation is given (`!this._destField` is false)
FieldGiven(field) == field # ""

\* SimpleContentRelation
SimpleGetRelatedRecords(m, targetId, tableType) ==
    LET destField == IF tableType = "src" THEN m.destField ELSE m.srcField
        destTable == IF tableType = "src" THEN m.destTable ELSE m.srcTable
        Matches(n) == Contents(n, destField) = targetId
    IN  IF ~FieldGiven(destField) THEN Void
        ELSE List(SelectSeq(GetNodes(destTable), Matches))

\* the dest side finds the related node and does not return it
SimpleResolveNodeRelationDropsRelated(m, node, tableType) ==
    IF tableType = "src"
    THEN SimpleGetRelatedRecords(m, PrimaryKey(node), tableType)
    ELSE Void

SimpleResolveNodeRelation(m, node, tableType) ==
    IF tableType = "src"
    THEN SimpleGetRelatedRecords(m, PrimaryKey(node), tableType)
    ELSE IF ~FieldGiven(m.destField) THEN Void
    ELSE LET existing == Contents(node, m.destField)
         IN  IF ToBoolean(existing)
             THEN GetByPrimaryKey(m.srcTable, existing)
             ELSE Void

\* JunctionContentRelation
GetRelatedJunctionRecords(m, targetId, tableType) ==
    LET targetJuncField == IF tableType = "src" THEN m.destJunctionField
                                               ELSE m.srcJunctionField
        destJuncField == IF tableType = "src" THEN m.srcJunctionField
                                             ELSE m.destJunctionField
        Matches(r) == /\ NotNullish(Contents(r, destJuncField))
                      /\ NotNullish(Contents(r, targetJuncField))
                      /\ Contents(r, targetJuncField) = targetId
    IN  SelectSeq(GetNodes(m.junctionTable), Matches)

ResolveJunctionNodesSameSide(m, junctionRecord) ==
    [src |-> GetByPrimaryKey(m.srcTable, Contents(junctionRecord, m.srcJunctionField)),
     dest |-> GetByPrimaryKey(m.destTable, Contents(junctionRecord, m.destJunctionField))]

ResolveJunctionNodes(m, junctionRecord) ==
    [src |-> GetByPrimaryKey(m.srcTable, Contents(junctionRecord, m.destJunctionField)),
     dest |-> GetByPrimaryKey(m.destTable, Contents(junctionRecord, m.srcJunctionField))]

\* stops at the first junction row whose counterpart is not found
RECURSIVE JunctionCounterpartsUntilVoid(_, _, _)
JunctionCounterpartsUntilVoid(m, existing, tableType) ==
    IF existing = <<>> THEN <<>>
    ELSE LET both == ResolveJunctionNodes(m, Head(existing))
             one == IF tableType = "src" THEN both.dest ELSE both.src
         IN  IF one = Void THEN <<>>
             ELSE one.nodes \o JunctionCounterpartsUntilVoid(m, Tail(existing), tableType)

RECURSIVE JunctionCounterparts(_, _, _)
JunctionCounterparts(m, existing, tableType) ==
    IF existing = <<>> THEN <<>>
    ELSE LET both == ResolveJunctionNodes(m, Head(existing))
             one == IF tableType = "src" THEN both.dest ELSE both.src
         IN  one.nodes \o JunctionCounterparts(m, Tail(existing), tableType)

JunctionResolveNodeRelation(m, node, tableType) ==
    LET existing == GetRelatedJunctionRecords(m, PrimaryKey(node), tableType)
    IN  List(JunctionCounterparts(m, existing, tableType))

\* FileContentRelation
FileSrcRelated(related) == IF Len(related) > 0 THEN List(related) ELSE Void

\* the src side returns the list it found, empty or not
FileResolveNodeRelationEmptyList(m, node, tableType) ==
    IF ~FieldGiven(m.destField) THEN Void
    ELSE IF tableType = "src"
    THEN LET Matches(n) == Contents(n, m.destField) = PrimaryKey(node)
         IN  List(SelectSeq(GetNodes(m.destTable), Matches))
    ELSE LET existing == Contents(node, m.destField)
         IN  IF ToBoolean(existing)
             THEN GetByPrimaryKey(m.srcTable, existing)
             ELSE Void

\* no relations for the file nodes
FileResolveNodeRelationNoSrc(m, node, tableType) ==
    IF tableType = "src" THEN Void
    ELSE LET existing == Contents(node, m.destField)
         IN  IF ToBoolean(existing)
             THEN GetByPrimaryKey(m.srcTable, existing)
             ELSE Void

\* the dest side looks the file up among the dest nodes
FileResolveNodeRelationOwnTable(m, node, tableType) ==
    IF ~FieldGiven(m.destField) THEN Void
    ELSE IF tableType = "src"
    THEN LET Matches(n) == Contents(n, m.destField) = PrimaryKey(node)
         IN  FileSrcRelated(SelectSeq(GetNodes(m.destTable), Matches))
    ELSE LET existing == Contents(node, m.destField)
         IN  IF ToBoolean(existing)
             THEN GetByPrimaryKey(m.destTable, existing)
             ELSE Void

FileResolveNodeRelation(m, node, tableType) ==
    IF ~FieldGiven(m.destField) THEN Void
    ELSE IF tableType = "src"
    THEN LET Matches(n) == Contents(n, m.destField) = PrimaryKey(node)
         IN  FileSrcRelated(SelectSeq(GetNodes(m.destTable), Matches))
    ELSE LET existing == Contents(node, m.destField)
         IN  IF ToBoolean(existing)
             THEN GetByPrimaryKey(m.srcTable, existing)
             ELSE Void

\* the relation's own _resolveNodeRelation
ResolveNodeRelation(m, node, tableType) ==
    CASE m.kind = "simple" -> SimpleResolveNodeRelation(m, node, tableType)
      [] m.kind = "junction" -> JunctionResolveNodeRelation(m, node, tableType)
      [] m.kind = "file" -> FileResolveNodeRelation(m, node, tableType)

\* the tables a relation may connect
Keys == 0..MaxKey
FieldValues == {Num(k) : k \in Keys} \cup {Null, Undefined}
JunctionRowCounts == {0, 1, 2}

Ascending(S) ==
    CHOOSE s \in [1..Cardinality(S) -> S] : \A i, j \in 1..Cardinality(S) : i < j => s[i] < s[j]

SrcTable(S) ==
    [i \in 1..Cardinality(S) |-> ContentNode("src", [id |-> Num(Ascending(S)[i])])]

DestTable(ref) ==
    [i \in 1..Cardinality(DOMAIN ref) |->
        LET k == Ascending(DOMAIN ref)[i]
        IN  ContentNode("dest", [id |-> Num(k), ref |-> ref[k]])]

JunctionTable(rows) ==
    [i \in 1..Len(rows) |->
        ContentNode("junction", [id |-> Num(i), src_id |-> rows[i][1], dest_id |-> rows[i][2]])]

Relation(kind, destField, S, ref, rows) ==
    [kind |-> kind,
     srcField |-> "id",
     destField |-> destField,
     srcJunctionField |-> "dest_id",
     destJunctionField |-> "src_id",
     srcTable |-> SrcTable(S),
     destTable |-> DestTable(ref),
     junctionTable |-> JunctionTable(rows)]

Refs(keys) == UNION {[D -> FieldValues] : D \in SUBSET keys}

\* the relations over tables whose primary keys are among keys
Relations(keys) ==
    {Relation(kind, destField, S, ref, <<>>) :
        kind \in {"simple", "file"}, destField \in {"ref", ""},
        S \in SUBSET keys, ref \in Refs(keys)}
    \cup
    {Relation("junction", "", S, [k \in D |-> Undefined], rows) :
        S \in SUBSET keys, D \in SUBSET keys,
        rows \in UNION {[1..n -> FieldValues \X FieldValues] : n \in JunctionRowCounts}}

\* Post(id, authorId) and Author(id): Author = {1, 2},
\* Post = {(10, 1), (11, 1), (12, 2)}
AuthorPost ==
    Relation("simple", "ref", {1, 2},
             (10 :> Num(1)) @@ (11 :> Num(1)) @@ (12 :> Num(2)), <<>>)

NoRelation == Relation("simple", "", {}, <<>>, <<>>)

NotResolved == [tableType |-> "none", node |-> ContentNode("src", [id |-> Undefined]), related |-> Void]

\* --------------------------------------------------------------- Init
\* driver "queue": the requests are passed to a BasicRequestQueue, which calls
\* exec(); driver "direct": request 1 is driven by its caller's own exec() calls.
\* The queue sees of a request only how its exec() promises settle.  A timeout
\* is to it a rejection like any other, and a request stopped before page
\* i > 1 settles them as a request of i - 1 pages does, so under the queue the
\* timeout is off and beforeNextPage stops before page 1 or never.  A bound of
\* NumReqs or more can never be reached by NumReqs requests and is the same as
\* no bound (0).  The queue dispatches a request once per page: a request of
\* one page shows it the single dispatch, one of two pages the repeated one.
QueuePageChoices == {1, 2}

Configs ==
    {c \in [driver : {"queue", "direct"},
            maxConcurrentRequests : 0..(NumReqs - 1),
            throttle : DelayChoices,
            timeout : DelayChoices,
            pages : [Reqs -> 1..MaxPages],
            stopAt : [Reqs -> 0..MaxPages],
            ret : [Reqs -> PredicateReturns \ {"false"}],
            limit : LimitChoices,
            chunkSize : ChunkSizeChoices] :
        /\ \A r \in Reqs : c.stopAt[r] <= c.pages[r]
        /\ c.driver = "queue" =>
              /\ c.timeout = 0
              /\ \A r \in Reqs : c.stopAt[r] <= 1 /\ (c.stopAt[r] = 1 => c.pages[r] = 1)
              /\ \A r \in Reqs : c.ret[r] = "true"
              /\ \A r \in Reqs : c.pages[r] \in QueuePageChoices
        /\ c.driver = "direct" =>
              /\ c.maxConcurrentRequests = 0
              /\ c.throttle = 0
              /\ \A r \in Reqs \ {1} : c.pages[r] = 1 /\ c.stopAt[r] = 0 /\ c.ret[r] = "true"}

\* The fields of a new queue and of new requests.
FetchStart ==
    /\ queue = <<>> /\ active = <<>> /\ failed = <<>> /\ completed = <<>>
    /\ currentFlush = FALSE
    /\ flushWait = "none"
    /\ jobs = <<>>
    /\ genState = [r \in Reqs |-> "suspendedStart"]
    /\ genQ = [r \in Reqs |-> <<>>]
    /\ pageInfo = [r \in Reqs |-> InitPageInfo]
    /\ results = [r \in Reqs |-> InitResults]
    /\ awaiting = [r \in Reqs |-> 0]
    /\ orphans = [r \in Reqs |-> 0]
    /\ state = [r \in Reqs |-> "queued"]
    /\ receivedError = [r \in Reqs |-> "none"]
    /\ fin = [r \in Reqs |-> "none"]
    /\ finValue = [r \in Reqs |-> <<>>]
    /\ finError = [r \in Reqs |-> "none"]
    /\ finTakenIn = [r \in Reqs |-> "none"]
    /\ stale = [r \in Reqs |-> <<>>]
    /\ resets = [r \in Reqs |-> 0]
    /\ sendLog = [r \in Reqs |-> <<>>]
    /\ respLog = [r \in Reqs |-> <<>>]
    /\ enqueued = {}
    /\ execCalls = [r \in Reqs |-> 0]
    /\ execLog = [r \in Reqs |-> <<>>]
    /\ reqLog = [r \in Reqs |-> <<>>]
    /\ stopped = [r \in Reqs |-> FALSE]
    /\ dispatched = [r \in Reqs |-> 0]
    /\ dispatchLog = [maxActive |-> 0, minQueue |-> NumReqs, wave |-> "none", last |-> 0]
    /\ flushWaiters = FALSE
    /\ flushSeen = [st |-> "none", waiting |-> 0, outstanding |-> 0]

FetchInit == cfg \in Configs /\ FetchStart

Init == FetchInit /\ ingest = NoIngest /\ mesh = NoRelation /\ resolved = NotResolved

\* ------------------------------------------------------------ actions
\* Calls and macrotasks (network, timers) run only when no reaction job is pending.
Idle == jobs = <<>>

\* queue.enqueue(request); request.finished(), as DirectusService fetches.  Each
\* request is enqueued once; the requests being interchangeable and cfg ranging
\* over all of them, they are enqueued in the order of their numbers.
EnqueueCall(r) ==
    /\ Idle /\ cfg.driver = "queue" /\ r \notin enqueued
    /\ \A r2 \in Reqs : r2 < r => r2 \in enqueued
    /\ Become(Finished(Enqueue([Here EXCEPT !.enqueued = @ \cup {r}], r), r))

\* await queue.flush(); one such call is followed to its end
FlushCall ==
    /\ Idle /\ cfg.driver = "queue" /\ ~flushWaiters /\ flushSeen.st = "none"
    /\ LET s == [Here EXCEPT !.flushWaiters = TRUE]
       IN Become(IF s.currentFlush THEN s ELSE Flush(s))

\* request.exec() by the request's own caller, also while an earlier exec() is pending
ExecCall(r) ==
    /\ Idle /\ cfg.driver = "direct" /\ r = 1
    /\ execCalls[r] < MaxPages + 2
    /\ Become(Exec(Here, r))

\* request.finished() by the request's own caller
FinishedCall(r) ==
    /\ Idle /\ cfg.driver = "direct" /\ r = 1 /\ fin[r] = "none"
    /\ Become(Finished(Here, r))

\* the network answers the awaited page request
PageResponse(r) ==
    /\ Idle /\ awaiting[r] # 0
    /\ Become(OnPageResponse(Here, r))

\* the awaited page request is rejected
PageReject(r) ==
    /\ Idle /\ awaiting[r] # 0
    /\ Become(OnPageError(Here, r, "reject"))

\* the timer of _wrapTimeout fires first; the page request stays in the network
PageTimeout(r) ==
    /\ Idle /\ awaiting[r] # 0 /\ WrapTimeoutArmed(cfg.timeout)
    /\ Become(OnPageError([Here EXCEPT !.orphans[r] = @ + 1], r, "timeout"))

\* a page request that lost its race settles: the settled race ignores it
LateResponse(r) ==
    /\ Idle /\ orphans[r] > 0
    /\ Become(OnLateResponse(Here, r))

\* the throttle timer of _startFlush fires
ThrottleElapsed ==
    /\ Idle /\ flushWait = "throttle"
    /\ Become(StartFlush([Here EXCEPT !.dispatchLog.wave = "paid"]))

\* reaction jobs, in FIFO order
RunActivateRequestSettled ==
    /\ jobs # <<>> /\ Head(jobs).t = "settle"
    /\ Become(ActivateRequestSettled([Here EXCEPT !.jobs = Tail(@)], Head(jobs)))

RunStartFlushResumed ==
    /\ jobs # <<>> /\ Head(jobs).t = "flushCont"
    /\ Become(StartFlushResumed([Here EXCEPT !.jobs = Tail(@)]))

RunFlushSettled ==
    /\ jobs # <<>> /\ Head(jobs).t = "flushFinally"
    /\ Become(FlushSettled([Here EXCEPT !.jobs = Tail(@)], Head(jobs)))

\* the network answers the awaited page request of a PaginatedDirectusApiRequest
DirectusPageResponse(r) ==
    /\ Idle /\ awaiting[r] # 0
    /\ \E withError \in BOOLEAN, missing \in SUBSET MetaFields :
          Become(OnDirectusPageResponse(Here, r,
                     DirectusResponse(r, awaiting[r], withError, missing)))

Next ==
    \/ \E r \in Reqs : EnqueueCall(r)
    \/ FlushCall
    \/ \E r \in Reqs : ExecCall(r)
    \/ \E r \in Reqs : FinishedCall(r)
    \/ \E r \in Reqs : PageResponse(r)
    \/ \E r \in Reqs : PageReject(r)
    \/ \E r \in Reqs : PageTimeout(r)
    \/ \E r \in Reqs : LateResponse(r)
    \/ ThrottleElapsed
    \/ RunActivateRequestSettled
    \/ RunStartFlushResumed
    \/ RunFlushSettled

Spec == Init /\ [][Next]_vars

\* request.reset() by the request's own caller, at any time
ResetCall(r) ==
    /\ Idle /\ cfg.driver = "direct" /\ r = 1
    /\ resets[r] < MaxResets
    /\ awaiting[r] # 0 => Len(stale[r]) < MaxStale
    /\ Become(Reset(Here, r))

\* the network settles the page request a replaced generator awaits
StalePageResponse(r) ==
    /\ Idle
    /\ \E i \in 1..Len(stale[r]) : Become(OnStalePageResponse(Here, r, i))

StalePageReject(r) ==
    /\ Idle
    /\ \E i \in 1..Len(stale[r]) : Become(OnStalePageError(Here, r, i, "reject"))

StalePageTimeout(r) ==
    /\ Idle /\ WrapTimeoutArmed(cfg.timeout)
    /\ \E i \in 1..Len(stale[r]) :
          Become(OnStalePageError([Here EXCEPT !.orphans[r] = @ + 1], r, i, "timeout"))

\* A request driven by its caller's exec() calls and reused through reset().
InitReset == Init /\ cfg.driver = "direct" /\ cfg.ret[1] = "true"

NextReset ==
    \/ \E r \in Reqs : ExecCall(r)
    \/ \E r \in Reqs : FinishedCall(r)
    \/ \E r \in Reqs : ResetCall(r)
    \/ \E r \in Reqs : PageResponse(r)
    \/ \E r \in Reqs : PageReject(r)
    \/ \E r \in Reqs : PageTimeout(r)
    \/ \E r \in Reqs : LateResponse(r)
    \/ \E r \in Reqs : StalePageResponse(r)
    \/ \E r \in Reqs : StalePageReject(r)
    \/ \E r \in Reqs : StalePageTimeout(r)

SpecReset == InitReset /\ [][NextReset]_vars

\* A PaginatedDirectusApiRequest driven by its caller's exec() calls, against a
\* server whose answers may carry an error payload or lack metadata.
InitDirectus == Init /\ cfg.driver = "direct"

NextDirectus ==
    \/ \E r \in Reqs : ExecCall(r)
    \/ \E r \in Reqs : FinishedCall(r)
    \/ \E r \in Reqs : DirectusPageResponse(r)
    \/ \E r \in Reqs : PageReject(r)
    \/ \E r \in Reqs : PageTimeout(r)
    \/ \E r \in Reqs : LateResponse(r)

SpecDirectus == InitDirectus /\ [][NextDirectus]_vars

\* A PaginatedDirectusApiRequest with a limit and a chunk size, driven by its
\* caller's exec() calls against a server that answers each page request with
\* up to as many records as its limit parameter asks for (any number when the
\* parameter is negative), an empty page included.
OffsetConfigs ==
    {c \in [driver : {"direct"},
            maxConcurrentRequests : {0},
            throttle : {0},
            timeout : {0},
            pages : [Reqs -> 1..MaxPages],
            stopAt : [Reqs -> {0}],
            ret : [Reqs -> {"true"}],
            limit : -1..MaxLimit,
            chunkSize : 0..MaxChunk] :
        \A r \in Reqs \ {1} : c.pages[r] = 1}

LastParams(r) ==
    DirectusSendNextRequest(sendLog[r][Len(sendLog[r])], cfg.limit, cfg.chunkSize)

OffsetPageResponse(r) ==
    /\ Idle /\ awaiting[r] # 0
    /\ \E count \in 0..(IF LastParams(r).limit >= 0 THEN LastParams(r).limit ELSE MaxChunk) :
          Become(OnDirectusPageResponse(Here, r,
                     ServerAnswer(r, awaiting[r], LastParams(r), count)))

InitOffsets ==
    /\ cfg \in OffsetConfigs
    /\ FetchStart
    /\ ingest = NoIngest /\ mesh = NoRelation /\ resolved = NotResolved

NextOffsets ==
    \/ \E r \in Reqs : ExecCall(r)
    \/ \E r \in Reqs : FinishedCall(r)
    \/ \E r \in Reqs : OffsetPageResponse(r)

SpecOffsets == InitOffsets /\ [][NextOffsets]_vars

\* One ingestion run against a server whose fetches may each fail.
SourceNodesCall ==
    /\ ingest.stage = "idle"
    /\ ingest' = SourceNodes(ingest)
    /\ UNCHANGED <<fetchVars, mesh, resolved>>

FetchSettles(f) ==
    /\ ingest.fetch[f] = "pending"
    /\ \E finished \in {"fulfilled", "rejected"} :
          ingest' = SettleFetch(ingest, f, finished)
    /\ UNCHANGED <<fetchVars, mesh, resolved>>

ProcessMeshSettles ==
    /\ ingest.stage = "processing"
    /\ \E outcome \in {"fulfilled", "rejected"} :
          ingest' = SettleProcessMesh(ingest, outcome)
    /\ UNCHANGED <<fetchVars, mesh, resolved>>

InitIngest ==
    /\ FetchInit
    /\ cfg.driver = "queue" /\ cfg.maxConcurrentRequests = 0 /\ cfg.throttle = 0
    /\ \A r \in Reqs : cfg.pages[r] = 1 /\ cfg.stopAt[r] = 0
    /\ \E server \in Servers : ingest = [NoIngest EXCEPT !.server = server]
    /\ mesh = NoRelation /\ resolved = NotResolved

NextIngest ==
    \/ SourceNodesCall
    \/ \E f \in AllFetches : FetchSettles(f)
    \/ ProcessMeshSettles

SpecIngest == InitIngest /\ [][NextIngest]_vars

\* A relation of the content mesh resolves the nodes of its two tables.
ResolveSrcNode ==
    /\ \E i \in 1..Len(mesh.srcTable) :
          resolved' = [tableType |-> "src", node |-> mesh.srcTable[i],
                       related |-> ResolveNodeRelation(mesh, mesh.srcTable[i], "src")]
    /\ UNCHANGED <<fetchVars, ingest, mesh>>

ResolveDestNode ==
    /\ \E i \in 1..Len(mesh.destTable) :
          resolved' = [tableType |-> "dest", node |-> mesh.destTable[i],
                       related |-> ResolveNodeRelation(mesh, mesh.destTable[i], "dest")]
    /\ UNCHANGED <<fetchVars, ingest, mesh>>

InitMesh ==
    /\ FetchInit
    /\ cfg.driver = "queue" /\ cfg.maxConcurrentRequests = 0 /\ cfg.throttle = 0
    /\ \A r \in Reqs : cfg.pages[r] = 1 /\ cfg.stopAt[r] = 0
    /\ ingest = NoIngest
    /\ mesh \in Relations(Keys) \cup {AuthorPost}
    /\ resolved = NotResolved

NextMesh ==
    \/ ResolveSrcNode
    \/ ResolveDestNode

SpecMesh == InitMesh /\ [][NextMesh]_vars

\* ------------------------------------------------------------- claims
InSeq(x, sq) == \E i \in 1..Len(sq) : sq[i] = x

Count(x, sq) == Cardinality({i \in 1..Len(sq) : sq[i] = x})

\* Nothing is left to happen without a new call: no reaction job, no page
\* request in the network awaited by a generator, no throttle timer.
Quiescent == jobs = <<>> /\ flushWait # "throttle" /\ \A r \in Reqs : awaiting[r] = 0

\* exec() promises of the request fulfilled with done = false
NumMore(r) == Count("more", execLog[r])

\* C1: the active set never holds more than maxConcurrentRequests promises, and
\* every dispatch found the active set below that bound and the waiting queue
\* non-empty.
C1_ActiveBounded ==
    /\ dispatchLog.minQueue > 0
    /\ cfg.maxConcurrentRequests > 0 =>
          /\ Len(active) <= cfg.maxConcurrentRequests
          /\ dispatchLog.maxActive < cfg.maxConcurrentRequests

\* a request waits while the bound of 1 is used up by a dispatched request
C1_Witness ==
    /\ cfg.maxConcurrentRequests = 1
    /\ Len(active) = 1 /\ awaiting[active[1].req] # 0
    /\ Len(queue) >= 1

\* C2: once nothing is left to happen, every enqueued request is in the completed
\* set or in the failed set.
C2_AllSettle ==
    Quiescent => \A r \in enqueued : InSeq(r, completed) \/ InSeq(r, failed)

\* C3: a request whose exec() rejects is appended to the failed set once and is
\* never dispatched or queued again; in the step that records it, the waiting
\* queue, the completed set, the other active promises and the other requests'
\* generators, page requests and results are untouched.
C3_FailureIsolated ==
    [][\A r \in Reqs :
          /\ (~InSeq(r, failed) /\ InSeq(r, failed')) =>
                /\ failed' = Append(failed, r)
                /\ queue' = queue
                /\ completed' = completed
                /\ \A i \in 1..Len(active) : active[i].req # r => InSeq(active[i], active')
                /\ \A r2 \in Reqs \ {r} :
                      /\ awaiting'[r2] = awaiting[r2]
                      /\ genState'[r2] = genState[r2]
                      /\ state'[r2] = state[r2]
                      /\ results'[r2] = results[r2]
          /\ InSeq(r, failed) =>
                /\ Count(r, failed') = 1
                /\ dispatched'[r] = dispatched[r]
                /\ ~InSeq(r, queue')
                /\ \A i \in 1..Len(active') : active'[i].req # r]_vars

\* a request has failed while another waits and a third party's page is outstanding
C3_Witness ==
    \E r, r2 \in Reqs :
        /\ r # r2
        /\ InSeq(r, failed)
        /\ InSeq(r2, queue) \/ awaiting[r2] # 0

\* C4: a caller of flush() that sees its promise fulfilled finds the waiting
\* queue empty and no dispatched request with a page request outstanding.
C4_FlushDrains ==
    flushSeen.st = "resolved" => flushSeen.waiting = 0 /\ flushSeen.outstanding = 0

\* C5: a request never has two page requests in the network, requests its pages
\* in the order 1, 2, 3, ..., and awaits page N + 1 only with pages 1..N merged.
C5_PagesSequential ==
    \A r \in Reqs :
        /\ (IF awaiting[r] # 0 THEN 1 ELSE 0) + orphans[r] <= 1
        /\ reqLog[r] = [i \in 1..Len(reqLog[r]) |-> i]
        /\ awaiting[r] # 0 =>
              /\ awaiting[r] = Len(reqLog[r])
              /\ results[r] = ConcatPages(awaiting[r] - 1)

\* exec() calls overlap (two are pending) while page 2 is awaited
C5_Witness ==
    /\ cfg.driver = "direct"
    /\ Len(genQ[1]) >= 2
    /\ awaiting[1] = 2

\* C6: results() is the concatenation of pages 1..N, N the number of exec()
\* promises fulfilled with done = false, and of all k pages once the request
\* completed without being stopped.
C6_ResultsArePrefix ==
    \A r \in Reqs :
        /\ NumMore(r) <= cfg.pages[r]
        /\ results[r] = ConcatPages(NumMore(r))
        /\ (state[r] = "complete::success" /\ ~stopped[r]) =>
              results[r] = ConcatPages(cfg.pages[r])

\* a request of two pages completed with both merged
C6_Witness ==
    /\ cfg.pages[1] = 2 /\ cfg.stopAt[1] = 0
    /\ state[1] = "complete::success"
    /\ results[1] = PageData(1) \o PageData(2)

\* C7: once nothing is left to happen, no request that was dispatched and put
\* back after done = false is still waiting for its next dispatch.
C7_RedispatchedLater ==
    Quiescent => \A r \in Reqs : InSeq(r, queue) => dispatched[r] = 0

\* C8: with beforeNextPage returning false before page i, no page >= i is ever
\* requested, and once it returned false the request is in complete::success
\* with pages 1..i-1 as results and its finished() promise fulfilled with them.
C8_EarlyStop ==
    \A r \in Reqs : cfg.stopAt[r] > 0 =>
        /\ \A n \in 1..Len(reqLog[r]) : reqLog[r][n] < cfg.stopAt[r]
        /\ stopped[r] =>
              /\ state[r] = "complete::success"
              /\ results[r] = ConcatPages(cfg.stopAt[r] - 1)
              /\ fin[r] \in {"none", "fulfilled"}
              /\ fin[r] = "fulfilled" => finValue[r] = results[r]

\* stopped before page 2: page 1 is the result, finished() is fulfilled
C8_Witness ==
    /\ cfg.stopAt[1] = 2 /\ stopped[1]
    /\ results[1] = PageData(1)
    /\ fin[1] = "fulfilled"

\* C9: after the timeout of page i the exec() that requested it is rejected with
\* the timeout error, the request is in complete::error, results() is pages
\* 1..i-1 and finished() is rejected.
C9_Timeout ==
    \A r \in Reqs : receivedError[r] = "timeout" =>
        LET i == Len(reqLog[r]) IN
        /\ WrapTimeoutArmed(cfg.timeout)
        /\ state[r] = "complete::error"
        /\ results[r] = ConcatPages(i - 1)
        /\ Len(execLog[r]) >= i /\ execLog[r][i] = "timeout"
        /\ \A n \in 1..Len(execLog[r]) : n # i => execLog[r][n] \in {"more", "done"}
        /\ fin[r] \in {"none", "rejected"}

\* page 2 timed out: page 1 is kept, finished() is rejected
C9_Witness ==
    /\ receivedError[1] = "timeout"
    /\ Len(reqLog[1]) = 2
    /\ results[1] = PageData(1)
    /\ fin[1] = "rejected"

\* C10: after the rejection of page i the exec() that requested it is rejected
\* with that error and results() is pages 1..i-1, the empty container for i = 1.
C10_Rejection ==
    \A r \in Reqs : receivedError[r] = "reject" =>
        LET i == Len(reqLog[r]) IN
        /\ Len(execLog[r]) >= i /\ execLog[r][i] = "reject"
        /\ results[r] = ConcatPages(i - 1)
        /\ i = 1 => results[r] = InitResults
        /\ awaiting[r] = 0 /\ genState[r] = "completed"

\* page 1 was rejected in one run, page 2 in another: here page 2, page 1 kept
C10_Witness ==
    /\ cfg.driver = "direct"
    /\ receivedError[1] = "reject"
    /\ Len(reqLog[1]) = 2
    /\ results[1] = PageData(1)

\* responses delivered to the request that carried an error payload / lacked metadata
ErrorPayloadAt(r) == {n \in 1..Len(respLog[r]) : respLog[r][n].error}
MissingMetaAt(r) == {n \in 1..Len(respLog[r]) : respLog[r][n].missing # {}}

\* C11: a response with an error payload is the last the request receives: the
\* exec() that requested it is rejected, the request is in complete::error, a
\* finished() promise is rejected, results() is the pages before it, and no
\* page request is awaited or made after it.
C11_ErrorPayloadFails ==
    \A r \in Reqs : \A n \in ErrorPayloadAt(r) :
        /\ n = Len(respLog[r]) /\ n = Len(reqLog[r])
        /\ state[r] = "complete::error" /\ receivedError[r] = "payload"
        /\ Len(execLog[r]) >= n /\ execLog[r][n] = "payload"
        /\ results[r] = ConcatPages(n - 1)
        /\ fin[r] \in {"none", "rejected"}
        /\ fin[r] = "rejected" => finError[r] = "payload"
        /\ awaiting[r] = 0 /\ genState[r] = "completed"

\* page 2 came with an error payload while finished() was pending
C11_Witness ==
    /\ ErrorPayloadAt(1) = {2}
    /\ results[1] = PageData(1)
    /\ fin[1] = "rejected" /\ finTakenIn[1] \in {"queued", "started"}

\* C12: a response lacking a numeric result_count, page or page_count is the
\* last the request receives: the exec() that requested it is rejected, the
\* request is in complete::error and never in complete::success, and a
\* finished() promise is rejected.
C12_MissingMetaFails ==
    \A r \in Reqs : \A n \in MissingMetaAt(r) :
        /\ n = Len(respLog[r]) /\ n = Len(reqLog[r])
        /\ state[r] = "complete::error"
        /\ receivedError[r] = IF respLog[r][n].error THEN "payload" ELSE "meta"
        /\ Len(execLog[r]) >= n /\ execLog[r][n] = receivedError[r]
        /\ \A m \in 1..Len(execLog[r]) : m < n => execLog[r][m] = "more"
        /\ fin[r] \in {"none", "rejected"}
        /\ awaiting[r] = 0 /\ genState[r] = "completed"

\* page 1 of a two-page request came without page_count while finished() was pending
C12_Witness ==
    /\ cfg.pages[1] = 2
    /\ Len(respLog[1]) = 1 /\ respLog[1][1] = [error |-> FALSE, missing |-> {"page_count"}]
    /\ state[1] = "complete::error"
    /\ fin[1] = "rejected" /\ finTakenIn[1] \in {"queued", "started"}

\* C13: a finished() promise taken on a request that was not terminal is pending
\* until the request is terminal; it is then fulfilled with results() if the
\* request is in complete::success, and rejected with the received error if it
\* is in complete::error, and stays so.
C13_FinishedSettles ==
    \A r \in Reqs : finTakenIn[r] \in {"queued", "started"} =>
        /\ ~IsTerminal(state[r]) => fin[r] = "pending"
        /\ state[r] = "complete::success" =>
              fin[r] = "fulfilled" /\ finValue[r] = results[r]
        /\ state[r] = "complete::error" =>
              fin[r] = "rejected" /\ finError[r] = receivedError[r]

\* finished() was called during the drive of a two-page request and got both pages
C13_Witness ==
    /\ cfg.pages[1] = 2 /\ cfg.stopAt[1] = 0
    /\ finTakenIn[1] = "started"
    /\ fin[1] = "fulfilled" /\ finValue[1] = ConcatPages(2)

\* C14: a finished() promise taken on a terminal request is never pending: it is
\* fulfilled with results() if the request was in complete::success, rejected
\* with the stored error if it was in complete::error.
C14_FinishedOnTerminal ==
    \A r \in Reqs :
        /\ finTakenIn[r] = "complete::success" =>
              fin[r] = "fulfilled" /\ finValue[r] = results[r]
        /\ finTakenIn[r] = "complete::error" =>
              fin[r] = "rejected" /\ finError[r] = receivedError[r]

\* finished() was called after page 2 had timed out
C14_Witness ==
    /\ finTakenIn[1] = "complete::error"
    /\ fin[1] = "rejected" /\ finError[1] = "timeout"
    /\ Len(reqLog[1]) = 2

\* C17: in a step from a terminal state the state, results() and the pages
\* requested stay as they are, no page request is awaited, and an exec() made
\* in that step is fulfilled at once with done = true.
C17_TerminalExecIsNoOp ==
    [][\A r \in Reqs : IsTerminal(state[r]) =>
          /\ state'[r] = state[r]
          /\ results'[r] = results[r]
          /\ reqLog'[r] = reqLog[r] /\ sendLog'[r] = sendLog[r]
          /\ awaiting'[r] = 0
          /\ execCalls'[r] # execCalls[r] =>
                /\ execLog'[r] = Append(execLog[r], "done")
                /\ genQ'[r] = <<>>]_vars

\* three exec() calls were made on a one-page request after its last page
C17_Witness ==
    /\ cfg.pages[1] = 1
    /\ execLog[1] = <<"more", "done", "done", "done">>
    /\ results[1] = PageData(1)

\* C19: the first page request carries the initial pageInfo, request n + 1 the
\* pageInfo resolved from response n; every request is made on a pageInfo with
\* hasNextPage, none is awaited once hasNextPage is false, and a request that
\* completes unstopped has made exactly as many requests as it has pages.
C19_RequestsFollowPageInfo ==
    \A r \in Reqs :
        /\ \A n \in 1..Len(sendLog[r]) :
              /\ sendLog[r][n].hasNextPage
              /\ sendLog[r][n] =
                    IF n = 1
                    THEN [currentOffset |-> 0, resultCount |-> 0, currentPage |-> 0,
                          totalPageCount |-> 0, hasNextPage |-> TRUE]
                    ELSE ResolveNextPageInfo(sendLog[r][n - 1], Response(r, n - 1))
        /\ Len(sendLog[r]) <= cfg.pages[r]
        /\ ~pageInfo[r].hasNextPage => awaiting[r] = 0 /\ Len(sendLog[r]) = cfg.pages[r]
        /\ (state[r] = "complete::success" /\ ~stopped[r]) => Len(sendLog[r]) = cfg.pages[r]

\* a two-page request completed after two requests
C19_Witness ==
    /\ cfg.pages[1] = 2
    /\ Len(sendLog[1]) = 2 /\ sendLog[1][2].currentPage = 1
    /\ state[1] = "complete::success"

\* C20: a request ends before its last page only where beforeNextPage returned
\* false; with a predicate that returns any other value before every page, it
\* completes with all its pages.
C20_OnlyFalseStops ==
    \A r \in Reqs :
        /\ stopped[r] => cfg.stopAt[r] > 0 /\ Len(reqLog[r]) = cfg.stopAt[r] - 1
        /\ (cfg.stopAt[r] = 0 /\ state[r] = "complete::success") =>
              results[r] = ConcatPages(cfg.pages[r])

\* the predicate returned 0 before each of two pages and both were fetched
C20_Witness ==
    /\ cfg.ret[1] = "0" /\ cfg.stopAt[1] = 0 /\ cfg.pages[1] = 2
    /\ state[1] = "complete::success"
    /\ results[1] = ConcatPages(2)

\* C15: a finished() promise that is fulfilled carries the full result set of
\* the request (the pages before the one beforeNextPage stopped at), however
\* many reset() calls and partial drives came before the drive that completed.
C15_FinishedSurvivesReset ==
    \A r \in Reqs : fin[r] = "fulfilled" =>
        finValue[r] = ConcatPages(IF cfg.stopAt[r] > 0 THEN cfg.stopAt[r] - 1
                                  ELSE cfg.pages[r])

\* C16: a request that completed unstopped after a reset() has as results()
\* exactly the result set of an uninterrupted first drive.
C16_ResetReproduces ==
    \A r \in Reqs :
        (resets[r] > 0 /\ state[r] = "complete::success" /\ ~stopped[r]) =>
            results[r] = ConcatPages(cfg.pages[r])

\* C18: the state changes only from queued to started (or on to
\* complete::success) in an exec(), from started to complete::success or
\* complete::error, and from any state to queued in a reset().
C18_StateMachine ==
    [][\A r \in Reqs : state'[r] # state[r] =>
          \/ /\ state[r] = "queued"
             /\ state'[r] \in {"started", "complete::success"}
             /\ execCalls'[r] = execCalls[r] + 1
          \/ /\ state[r] = "started"
             /\ state'[r] \in {"complete::success", "complete::error"}
          \/ /\ state'[r] = "queued"
             /\ resets'[r] = resets[r] + 1]_vars

\* ---- ingestion run (SpecIngest)
RequiredFetches == SchemaFetches \cup ContentFetches(ingest.collections)

\* C21: the content mesh is constructed only after the fetches of the
\* collection list, the relation list, the file collection, the records of
\* every listed collection and the files have all finished successfully; while
\* one of them is unfinished or has failed no mesh exists.
C21_MeshAfterAllFetches ==
    ingest.mesh.built =>
        /\ ingest.collections = ingest.server.collections
        /\ \A f \in RequiredFetches : ingest.fetch[f] = "fulfilled"
        /\ \A f \in AllFetches : ingest.fetch[f] \in {"fulfilled", "none"}
        /\ ingest.mesh.from = RequiredFetches

C21_Witness ==
    /\ ingest.mesh.built
    /\ ingest.collections = Collections

\* C22: when the fetch of the collection list, of the relation list or of the
\* file collection fails, the promise returned by sourceNodes does not complete
\* normally.
C22_SchemaFailureReachesCaller ==
    (\E f \in SchemaFetches : ingest.fetch[f] = "rejected") =>
        ingest.promise # "fulfilled"

\* C23: when the only fetches that failed are record fetches of single
\* collections, the run is not aborted: once every fetch has settled the mesh
\* has been built.
C23_RecordFailureTolerated ==
    (/\ \A f \in RequiredFetches : ingest.fetch[f] \in {"fulfilled", "rejected"}
     /\ \A f \in RequiredFetches : ingest.fetch[f] = "rejected" => f.kind = "records"
     /\ \E f \in RequiredFetches : ingest.fetch[f] = "rejected"
     /\ ingest.stage \in {"processing", "done"})
        => ingest.mesh.built

\* ---- relations of the content mesh (SpecMesh)
\* a field value the code takes for "no reference": null, undefined (absent), 0
EmptyField(v) == v \in {Null, Undefined, Num(0)}

\* the dest nodes whose destField holds the key pk / the nodes of a table with key v
Referencing(pk) == {i \in 1..Len(mesh.destTable) : mesh.destTable[i].record.ref = pk}
WithKey(table, v) == {i \in 1..Len(table) : table[i].record.id = v}

KeysOf(nodes) == [i \in 1..Len(nodes) |-> nodes[i].record.id]

\* what the src side of a relation through destField owes a node: the dest
\* nodes that reference it, each once
IsReferencingList(related, node) ==
    /\ related.type = "list"
    /\ Len(related.nodes) = Cardinality(Referencing(node.record.id))
    /\ \A i \in 1..Len(mesh.destTable) :
          Count(mesh.destTable[i], related.nodes) =
              IF i \in Referencing(node.record.id) THEN 1 ELSE 0

\* what the dest side owes a node: the src node its destField names, or none
IsReferencedNode(related, node) ==
    LET v == node.record.ref
        hit == WithKey(mesh.srcTable, v)
    IN  IF EmptyField(v) \/ hit = {}
        THEN related = Void
        ELSE related = Single(mesh.srcTable[CHOOSE i \in hit : TRUE])

C25_SimpleRoundTrip ==
    (mesh.kind = "simple" /\ resolved.tableType = "src") =>
        \A i \in 1..Len(resolved.related.nodes) :
            ResolveNodeRelation(mesh, resolved.related.nodes[i], "dest")
                = Single(resolved.node)

\* C26: a JunctionContentRelation is symmetric: if resolving node a on the src
\* side yields node b, resolving b on the dest side yields a list that holds
\* a, and conversely.
C26_JunctionSymmetric ==
    mesh.kind = "junction" =>
        /\ resolved.tableType = "src" =>
              \A i \in 1..Len(resolved.related.nodes) :
                  InSeq(resolved.node,
                        ResolveNodeRelation(mesh, resolved.related.nodes[i], "dest").nodes)
        /\ resolved.tableType = "dest" =>
              \A i \in 1..Len(resolved.related.nodes) :
                  InSeq(resolved.node,
                        ResolveNodeRelation(mesh, resolved.related.nodes[i], "src").nodes)

C26_Witness ==
    /\ mesh.kind = "junction"
    /\ resolved.tableType = "src"
    /\ Len(resolved.related.nodes) = 2
    /\ resolved.related.nodes[1] # resolved.related.nodes[2]

\* the junction rows that reference the node on the side asked and name the
\* counterpart node
JunctionRows(node, tableType, counterpart) ==
    {i \in 1..Len(mesh.junctionTable) :
        LET row == mesh.junctionTable[i].record
        IN  IF tableType = "src"
            THEN row.src_id = node.record.id /\ row.dest_id = counterpart.record.id
            ELSE row.dest_id = node.record.id /\ row.src_id = counterpart.record.id}

OppositeTable(tableType) == IF tableType = "src" THEN mesh.destTable ELSE mesh.srcTable

\* C27: a JunctionContentRelation returns for a node one counterpart node per
\* junction row that references the node and whose counterpart id exists in
\* the opposite collection; rows whose counterpart id is missing or matches no
\* record contribute nothing, and only nodes of the opposite collection are
\* returned.
C27_JunctionCounterparts ==
    (mesh.kind = "junction" /\ resolved.tableType # "none") =>
        LET opposite == OppositeTable(resolved.tableType)
        IN  /\ resolved.related.type = "list"
            /\ \A i \in 1..Len(resolved.related.nodes) :
                  InSeq(resolved.related.nodes[i], opposite)
            /\ \A j \in 1..Len(opposite) :
                  Count(opposite[j], resolved.related.nodes) =
                      Cardinality(JunctionRows(resolved.node, resolved.tableType, opposite[j]))

\* a row references the node and its counterpart id matches no record
C27_Witness ==
    /\ mesh.kind = "junction"
    /\ resolved.tableType = "src"
    /\ Len(resolved.related.nodes) = 1
    /\ \E i \in 1..Len(mesh.junctionTable) :
          /\ mesh.junctionTable[i].record.src_id = resolved.node.record.id
          /\ mesh.junctionTable[i].record.dest_id \notin {Null, Undefined}
          /\ WithKey(mesh.destTable, mesh.junctionTable[i].record.dest_id) = {}

\* C28: a FileContentRelation asked on the src side (a file node) never
\* returns an empty list: when no node of the dest collection references the
\* file the result is "no relation".
C28_FileSrcNeverEmptyList ==
    (mesh.kind = "file" /\ resolved.tableType = "src") =>
        /\ resolved.related # List(<<>>)
        /\ Referencing(resolved.node.record.id) = {} => resolved.related = Void

C28_Witness ==
    /\ mesh.kind = "file" /\ FieldGiven(mesh.destField)
    /\ resolved.tableType = "src"
    /\ Len(mesh.destTable) > 0
    /\ Referencing(resolved.node.record.id) = {}

Dispatches == \E r \in Reqs : dispatched'[r] # dispatched[r]

\* C31: with a throttle, once a request of a dispatch wave has settled no
\* request is dispatched before a throttle delay has ended: the only step that
\* dispatches then is the one in which the throttle timer fires.
C31_ThrottleBetweenWaves ==
    [][(cfg.throttle > 0 /\ dispatchLog.wave = "owed" /\ Dispatches)
          => (flushWait = "throttle" /\ jobs = <<>>)]_vars

\* C31 where no exec() promise rejects
C31_ThrottleUnlessRejected ==
    [][(cfg.throttle > 0 /\ dispatchLog.wave = "owed" /\ Dispatches /\ failed' = <<>>)
          => (flushWait = "throttle" /\ jobs = <<>>)]_vars

Waiting(q) == {q[i] : i \in 1..Len(q)}
Position(r, q) == CHOOSE i \in 1..Len(q) : q[i] = r
DispatchedNow(r) == dispatched'[r] # dispatched[r]

\* C32: requests are dispatched in the order they were enqueued.  A request
\* dispatched in a step was waiting before every request that waited before
\* the step and still waits after it; a request that starts to wait is put
\* behind all those waiting (the queue is popped from its end, so behind is
\* its front); and with maxConcurrentRequests = 1 no request is dispatched
\* twice in a row while another one that has been dispatched before waits: two
\* fetches take turns, a page each (a fetch never dispatched yet that is
\* enqueued behind a re-enqueued one is covered by the first part).
C32_DispatchInEnqueueOrder ==
    [][\A r \in Reqs :
          /\ DispatchedNow(r) =>
                /\ dispatched'[r] = dispatched[r] + 1
                /\ \A q \in (Waiting(queue) \cap Waiting(queue')) \ {r} :
                      r \in Waiting(queue) /\ Position(r, queue) > Position(q, queue)
                /\ (/\ cfg.maxConcurrentRequests = 1
                    /\ \E q \in Waiting(queue') \ {r} : dispatched[q] > 0)
                      => dispatchLog.last # r
          /\ (r \notin Waiting(queue) /\ r \in Waiting(queue')) =>
                /\ queue'[1] = r
                /\ Tail(queue') = SubSeq(queue, 1, Len(queue') - 1)]_vars

\* two fetches of two pages under maxConcurrentRequests = 1: 1, 2, 1, 2 dispatched, 1 waits again
C32_Witness ==
    /\ cfg.maxConcurrentRequests = 1
    /\ dispatched = <<2, 2>> /\ dispatchLog.last = 2
    /\ queue = <<1>>

ActiveRequests == [i \in 1..Len(active) |-> active[i].req]
Places(r) == Count(r, queue) + Count(r, ActiveRequests) + Count(r, completed) + Count(r, failed)

\* C33: between two steps every request that was enqueued is in exactly one
\* place, once: waiting in _queue, in _active with the one exec() promise that
\* is outstanding, in _completed or in _failed; a request never enqueued is in
\* none; and results() of the queue has one entry for each completed request,
\* its results(), and none for the others.
C33_OnePlaceEach ==
    /\ \A r \in Reqs : Places(r) = IF r \in enqueued THEN 1 ELSE 0
    /\ \A i \in 1..Len(active) : active[i].n = execCalls[active[i].req]
    /\ Waiting(completed) \cap Waiting(failed) = {}
    /\ Len(QueueResults(Here)) = Cardinality(Waiting(completed))
    /\ \A r \in Reqs :
          Count(results[r], QueueResults(Here)) >= 1
             => \E q \in Waiting(completed) : results[q] = results[r]
    /\ \A i \in 1..Len(completed) : QueueResults(Here)[i] = results[completed[i]]

\* one request failed, the other completed and its two records are in results()
C33_Witness ==
    /\ Len(failed) = 1 /\ Len(completed) = 1
    /\ QueueResults(Here) = <<ConcatPages(1)>>

\* ---- reset() and timeouts, again (SpecReset, Spec)
\* C34: after a reset() the response of a page request that was outstanding at
\* the reset has no effect on the instance: results() is the merge of pages
\* 1..n for some n of the pages requested since the reset, the request is
\* complete (success or error) only after an exec() made since the reset, and
\* the page awaited is the last one requested since the reset.
C34_ResetDropsOutstanding ==
    \A r \in Reqs : resets[r] > 0 =>
        /\ \E n \in 0..Len(reqLog[r]) : results[r] = ConcatPages(n)
        /\ state[r] \in {"complete::success", "complete::error"} => execCalls[r] > 0
        /\ awaiting[r] # 0 => awaiting[r] = reqLog[r][Len(reqLog[r])]

\* C35: the response of a page request that lost the race against its timeout
\* is discarded: the step in which it arrives changes neither results() nor the
\* state and the error of the request, settles no finished() promise and no
\* exec() promise, and requests no page.
C35_LateResponseDiscarded ==
    [][\A r \in Reqs : orphans'[r] < orphans[r] =>
          /\ results' = results /\ state' = state /\ receivedError' = receivedError
          /\ fin' = fin /\ finValue' = finValue /\ finError' = finError
          /\ execLog' = execLog /\ jobs' = jobs
          /\ reqLog' = reqLog /\ sendLog' = sendLog /\ awaiting' = awaiting
          /\ genState' = genState /\ pageInfo' = pageInfo]_vars

\* page 2 timed out and its response came afterwards: page 1 alone is in results()
C35_Witness ==
    /\ execLog[1] = <<"more", "timeout">> /\ orphans[1] = 0
    /\ state[1] = "complete::error" /\ receivedError[1] = "timeout"
    /\ results[1] = ConcatPages(1)

\* ---- PaginatedDirectusApiRequest, again (SpecDirectus, SpecOffsets)
\* C36: a page whose processing fails adds nothing to results(): after a
\* response for page n that carries data and no error payload but lacks a
\* numeric result_count, page or page_count, results() is the merge of the
\* pages 1..n-1.
C36_FailedPageNotMerged ==
    \A r \in Reqs : \A n \in MissingMetaAt(r) :
        ~respLog[r][n].error => results[r] = ConcatPages(n - 1)

Offsets(r) ==
    [n \in 1..Len(sendLog[r]) |->
        DirectusSendNextRequest(sendLog[r][n], cfg.limit, cfg.chunkSize).offset]

\* every page received so far held as many records as its request asked for
FullPages(r) == Len(results[r]) = Len(respLog[r]) * Min(cfg.limit, cfg.chunkSize)

\* C37: with a limit L >= 0 and a chunk size C > 0, while the server returns
\* as many records per page as the limit parameter asks for, results() never
\* holds more than L records.
C37_WithinLimit ==
    \A r \in Reqs :
        (cfg.limit >= 0 /\ cfg.chunkSize > 0 /\ FullPages(r)) =>
            Len(results[r]) <= cfg.limit

\* C37 for a limit that is a multiple of the chunk size
C37_WithinLimitOfWholeChunks ==
    \A r \in Reqs :
        (cfg.limit >= 0 /\ cfg.chunkSize > 0 /\ FullPages(r)
            /\ cfg.limit % cfg.chunkSize = 0) =>
            Len(results[r]) <= cfg.limit

\* C38: every page request after the first carries an offset greater than the
\* one before it, whatever the numbers of records the pages held, 0 included.
C38_OffsetsIncrease ==
    \A r \in Reqs : \A n \in 2..Len(sendLog[r]) : Offsets(r)[n] > Offsets(r)[n - 1]

\* C38 while no page received was empty
C38_OffsetsIncreaseAfterRecords ==
    \A r \in Reqs :
        (\A n \in 2..Len(sendLog[r]) : sendLog[r][n].resultCount > 0) =>
            \A n \in 2..Len(sendLog[r]) : Offsets(r)[n] > Offsets(r)[n - 1]

\* ---- the last exec() (Spec)
\* C39: a fetch over k pages that is not stopped and meets no error gets done =
\* false from each of its first k exec() calls; it is in complete::success only
\* once exec() call k + 1 was made, whose promise is fulfilled with done = true
\* and which requested no page (k pages were requested in all); under the queue
\* it is dispatched at most k + 1 times, and k + 1 times when it is recorded as
\* completed.
C39_CompletesOnExtraExec ==
    \A r \in Reqs :
        LET k == cfg.pages[r] IN
        /\ (receivedError[r] = "none" /\ ~stopped[r]) =>
              \A n \in 1..Len(execLog[r]) : n <= k => execLog[r][n] = "more"
        /\ (state[r] = "complete::success" /\ ~stopped[r]) =>
              /\ execCalls[r] >= k + 1
              /\ Len(execLog[r]) >= k + 1 /\ execLog[r][k + 1] = "done"
              /\ reqLog[r] = [n \in 1..k |-> n]
              /\ fin[r] \in {"none", "fulfilled"}
        /\ (execCalls[r] <= k /\ ~stopped[r]) => state[r] # "complete::success"
        /\ ~stopped[r] => dispatched[r] <= k + 1
        /\ (InSeq(r, completed) /\ ~stopped[r]) =>
              /\ dispatched[r] = k + 1 /\ execCalls[r] = k + 1
              /\ state[r] = "complete::success"

\* a two-page fetch under the queue: dispatched three times, then completed
C39_Witness ==
    /\ cfg.driver = "queue" /\ cfg.pages[1] = 2 /\ cfg.stopAt[1] = 0
    /\ InSeq(1, completed)
    /\ dispatched[1] = 3 /\ execLog[1] = <<"more", "more", "done">>
    /\ fin[1] = "fulfilled" /\ finValue[1] = ConcatPages(2)

====
